---- MODULE Spec2Model ----
(***************************************************************************)
(* Package promotion between release channels (share/python/repo).         *)
(*                                                                         *)
(* Strings that the code inspects character by character (version and     *)
(* release strings) are sequences of character codes; strings that are    *)
(* only compared for equality (package names, operating systems,          *)
(* architectures) are TLA+ strings.  An optional argument is <<>> for      *)
(* Python's None and <<x>> for the value x.                                *)
(***************************************************************************)
EXTENDS Integers, Sequences, FiniteSets, TLC

None == <<>>
Some(x) == <<x>>
IsNone(o) == o = <<>>
Val(o) == o[1]

(***************************************************************************)
(* versioncompare.py                                                       *)
(***************************************************************************)

\* str.isdigit() of one character
IsDigit(c) == c \in 48..57

\* a Python float of the magnitudes version2float produces, kept exact:
\* the value is hi * 10^-6 + lo * 10^-14 with lo < 10^8
Float(hi, lo) == [hi |-> hi + (lo \div 100000000), lo |-> lo % 100000000]

\* the ValueError that float() raises on a string that is not a number
ValueError == [raised |-> "ValueError"]

Raised(x) == "raised" \in DOMAIN x

FloatGreater(x, y) == x.hi > y.hi \/ (x.hi = y.hi /\ x.lo > y.lo)

\* str.split(".") of a character sequence
RECURSIVE SplitDot(_)
SplitDot(s) ==
    IF \A i \in 1..Len(s) : s[i] # 46
    THEN <<s>>
    ELSE LET k == CHOOSE i \in 1..Len(s) :
                      s[i] = 46 /\ \A j \in 1..(i - 1) : s[j] # 46
         IN  <<SubSeq(s, 1, k - 1)>> \o SplitDot(SubSeq(s, k + 1, Len(s)))

\* float(p) of a string of decimal digits, as an integer
RECURSIVE DigitsValue(_)
DigitsValue(p) ==
    IF p = <<>> THEN 0
    ELSE 10 * DigitsValue(SubSeq(p, 1, Len(p) - 1)) + (p[Len(p)] - 48)

IsDigits(p) == \A i \in 1..Len(p) : IsDigit(p[i])

\* float(p) of a version component or sub-revision: the integer value of
\* a string of decimal digits, and ValueError (-1 here) for the empty
\* string and for a string that holds a letter, a dot-free tag or another
\* character.  The forms float() accepts besides digits (blanks around the
\* number, a sign, a fraction, an exponent, "inf", "nan") are not among
\* the strings the specifications draw.
PyFloat(p) == IF p # <<>> /\ IsDigits(p) THEN DigitsValue(p) ELSE -1

\* s starts with the string sub at position i
StartsAt(s, sub, i) ==
    /\ i + Len(sub) - 1 <= Len(s)
    /\ SubSeq(s, i, i + Len(sub) - 1) = sub

\* sub in s
InStr(sub, s) == \E i \in 1..Len(s) : StartsAt(s, sub, i)

\* s.split(sep) for a separator that is not empty
RECURSIVE Split(_, _)
Split(s, sep) ==
    IF ~InStr(sep, s) THEN <<s>>
    ELSE LET k == CHOOSE i \in 1..Len(s) :
                      /\ StartsAt(s, sep, i)
                      /\ \A j \in 1..(i - 1) : ~StartsAt(s, sep, j)
         IN  <<SubSeq(s, 1, k - 1)>>
                 \o Split(SubSeq(s, k + Len(sep), Len(s)), sep)

\* the strings version2float looks for
StrPre == <<112, 114, 101>>
StrDotBeta == <<46, 98, 101, 116, 97>>
StrBeta == <<98, 101, 116, 97>>
StrUpperBeta == <<95, 66, 69, 84, 65>>
StrA == <<97>>
StrB == <<98>>
StrRc == <<114, 99>>

\* lines 25-29: what __v2fhelper does with the parts of the split
V2FSplit(st, parts, weight) ==
    IF Len(parts) # 2 THEN st
    ELSE [st EXCEPT !.v = parts[1],
                    !.tag = weight,
                    !.sub = IF parts[2] # <<>> THEN parts[2] ELSE <<48>>]

\* __v2fhelper on st = [v, tag, sub, final]: tag is version[4], sub is
\* version[5] as a string ("0" for the integer 0), final is version[6]
v2fhelper(st, suff, weight) == V2FSplit(st, Split(st.v, suff), weight)

\* the matches of (\d+).(\d+)p(\d+)-(\d{8})([a-z]?) at the start of v:
\* <<i, j, k>> with group 1 = v[1..i], one character, group 2 =
\* v[i+2..j], "p", group 3 = v[j+2..k], "-", group 4 = v[k+2..k+9]
OpenSSHMatches(v) ==
    { m \in (1..Len(v)) \X (1..Len(v)) \X (1..Len(v)) :
        /\ IsDigits(SubSeq(v, 1, m[1]))
        /\ m[1] + 2 <= m[2]
        /\ v[m[1] + 1] # 10
        /\ IsDigits(SubSeq(v, m[1] + 2, m[2]))
        /\ m[2] + 2 <= m[3]
        /\ v[m[2] + 1] = 112
        /\ IsDigits(SubSeq(v, m[2] + 2, m[3]))
        /\ m[3] + 9 <= Len(v)
        /\ v[m[3] + 1] = 45
        /\ IsDigits(SubSeq(v, m[3] + 2, m[3] + 9)) }

\* the match re.match returns: the first group is greedy, the others are
\* fixed by it
OpenSSHGreedy(matches) ==
    CHOOSE x \in matches : \A y \in matches : y[1] <= x[1]

\* lines 55-62: the float of the groups of the match m
OpenSSHFloatOf(v, m) ==
    LET g1 == DigitsValue(SubSeq(v, 1, m[1]))
        g2 == DigitsValue(SubSeq(v, m[1] + 2, m[2]))
        g3 == DigitsValue(SubSeq(v, m[2] + 2, m[3]))
        g4 == DigitsValue(SubSeq(v, m[3] + 2, m[3] + 9))
        letterval == IF /\ m[3] + 10 <= Len(v)
                        /\ v[m[3] + 10] \in 97..122
                     THEN v[m[3] + 10] - 97 + 1 ELSE 0
    IN  Float(g1 * 1000000 + g2 * 10000 + g3 * 100 + (g4 \div 1000000),
              (g4 % 1000000) * 100 + letterval)

\* lines 51-62: the float of the gsi-openssh style
OpenSSHFloat(v) == OpenSSHFloatOf(v, OpenSSHGreedy(OpenSSHMatches(v)))

\* lines 45-50: a "pre" in the string is cut off with what follows it, and
\* the string is not final.  st = [v, tag, sub, final]
V2FPre(v, preparts) ==
    [v     |-> IF Len(preparts) = 2 THEN preparts[1] ELSE v,
     tag   |-> 4,
     sub   |-> <<48>>,
     final |-> IF Len(preparts) = 2 THEN 0 ELSE 1]

\* lines 63-73: the suffixes looked for, with their weights: one spelling
\* of beta, or a and then b; and then rc
V2FSuffixes(v) ==
    IF InStr(StrDotBeta, v) THEN << <<StrDotBeta, 2>>, <<StrRc, 3>> >>
    ELSE IF InStr(StrBeta, v) THEN << <<StrBeta, 2>>, <<StrRc, 3>> >>
    ELSE IF InStr(StrUpperBeta, v) THEN << <<StrUpperBeta, 2>>, <<StrRc, 3>> >>
    ELSE << <<StrA, 1>>, <<StrB, 2>>, <<StrRc, 3>> >>

\* lines 63-73: the calls of __v2fhelper in turn
RECURSIVE V2FHelpers(_, _)
V2FHelpers(st, suffixes) ==
    IF suffixes = <<>> THEN st
    ELSE V2FHelpers(v2fhelper(st, suffixes[1][1], suffixes[1][2]),
                    Tail(suffixes))

V2FTags(st) == V2FHelpers(st, V2FSuffixes(st.v))

\* lines 75-81: float() of the first four dotted components, 0 where
\* there is none
V2FFloats(parts) ==
    [i \in 1..4 |-> IF i <= Len(parts) THEN PyFloat(parts[i]) ELSE 0]

\* lines 78-85: the components, the tag, the sub-revision and the final
\* mark packed into one number
V2FPack(st, floats, sub) ==
    IF \E i \in 1..4 : floats[i] = -1 THEN ValueError
    ELSE IF sub = -1 THEN ValueError
    ELSE Float(floats[1] * 1000000 + floats[2] * 10000 + floats[3] * 100
                   + floats[4],
               st.tag * 1000000 + sub * 10000 + st.final * 100)

\* lines 63-85 on the string left by line 45-50
V2FTagged(st) == V2FPack(st, V2FFloats(SplitDot(st.v)), PyFloat(st.sub))

\* lines 51-85: the gsi-openssh style, or the tagged dotted style
V2FStyle(st) ==
    IF OpenSSHMatches(st.v) # {} THEN OpenSSHFloat(st.v)
    ELSE V2FTagged(V2FTags(st))

\* version2float.  The result is a Float, or ValueError when float()
\* raises on a component (lines 78-84).
version2float(v) == V2FStyle(V2FPre(v, Split(v, StrPre)))

\* Python's str > str: lexicographic on the character codes
RECURSIVE StrGreater(_, _)
StrGreater(s, t) ==
    IF s = <<>> THEN FALSE
    ELSE IF t = <<>> THEN TRUE
    ELSE IF s[1] # t[1] THEN s[1] > t[1]
    ELSE StrGreater(Tail(s), Tail(t))

\* the leading run of digits and dots of a release string
RECURSIVE Accum(_)
Accum(s) ==
    IF s = <<>> \/ ~(IsDigit(s[1]) \/ s[1] = 46) THEN <<>>
    ELSE <<s[1]>> \o Accum(Tail(s))

\* the run without its trailing dot
Strip(a) ==
    IF Len(a) > 0 /\ a[Len(a)] = 46 THEN SubSeq(a, 1, Len(a) - 1) ELSE a

\* the float of the run, 0 when it is empty
AccumFloat(accum) ==
    IF accum # <<>> THEN version2float(accum) ELSE Float(0, 0)

\* what follows the run raw in ver
ReleaseRest(ver, raw) == SubSeq(ver, Len(raw) + 1, Len(ver))

\* the comparison of the floats, then of the rests
ReleaseGreaterOf(a1f, a2f, rest1, rest2) ==
    IF FloatGreater(a1f, a2f) THEN TRUE
    ELSE IF FloatGreater(a2f, a1f) THEN FALSE
    ELSE StrGreater(rest1, rest2)

ReleaseGreater(ver1, ver2) ==
    ReleaseGreaterOf(AccumFloat(Strip(Accum(ver1))),
                     AccumFloat(Strip(Accum(ver2))),
                     ReleaseRest(ver1, Accum(ver1)),
                     ReleaseRest(ver2, Accum(ver2)))

(***************************************************************************)
(* package.py                                                              *)
(***************************************************************************)

\* the wildcard release "*"
Wildcard == <<42>>

\* Version.__init__: release is an optional string
Version(version, release) ==
    [strversion |-> version,
     version    |-> version2float(version),
     release    |-> IF IsNone(release) THEN Wildcard ELSE Val(release)]

VersionLt(self, other) ==
    \/ FloatGreater(other.version, self.version)
    \/ /\ self.version = other.version
       /\ ReleaseGreater(other.release, self.release)

\* __eq__ where only the wildcard of self counts
VersionEqOneSided(self, other) ==
    /\ self.version = other.version
    /\ \/ self.release = other.release
       \/ self.release = Wildcard

VersionEq(self, other) ==
    /\ self.version = other.version
    /\ \/ self.release = other.release
       \/ self.release = Wildcard
       \/ other.release = Wildcard

\* Version.__ne__
VersionNe(self, other) ==
    self.version # other.version \/ self.release # other.release

\* VersionGt with >= in the place of > on the version numbers
VersionGtOrSame(self, other) ==
    \/ ~FloatGreater(other.version, self.version)
    \/ /\ self.version = other.version
       /\ ReleaseGreater(self.release, other.release)

VersionGt(self, other) ==
    \/ FloatGreater(self.version, other.version)
    \/ /\ self.version = other.version
       /\ ReleaseGreater(self.release, other.release)

VersionGe(self, other) == VersionGt(self, other) \/ VersionEq(self, other)

\* cmp(v, w) of two Version objects: Version has rich comparisons and no
\* __cmp__, so Python 2 tries ==, then <, then >, and orders the objects
\* by address when all three are false (result 2 here: no outcome fixed
\* by the values).
VersionCmp(v, w) ==
    IF VersionEq(v, w) THEN 0
    ELSE IF VersionLt(v, w) THEN -1
    ELSE IF VersionGt(v, w) THEN 1
    ELSE 2

\* Metadata.__init__
Metadata(name, version, release, path, arch, source, os) ==
    [name        |-> name,
     version     |-> Version(version, release),
     path        |-> path,
     arch        |-> arch,
     source_name |-> source,
     os          |-> os]

\* package names in the iteration order of the dictionaries keyed by name
Names == <<"a", "b-c">>

NameSet == {Names[i] : i \in 1..Len(Names)}

NameIndex(n) == CHOOSE i \in 1..Len(Names) : Names[i] = n

\* cmp(s, t) of two package names
NameCmp(s, t) ==
    IF s = t THEN 0
    ELSE IF NameIndex(s) < NameIndex(t) THEN -1
    ELSE IF NameIndex(s) > NameIndex(t) THEN 1 ELSE 0

\* Metadata.__cmp__
MetadataCmp(self, other) ==
    LET c == NameCmp(self.name, other.name)
    IN  IF c = 0 THEN VersionCmp(self.version, other.version) ELSE c

(***************************************************************************)
(* __init__.py: Repository.  A Repository is [packages, dirty]: packages   *)
(* maps every name to its list, the empty list standing for a name that   *)
(* is no key of the dictionary.                                            *)
(***************************************************************************)

\* list.sort() of a list of Metadata: a stable sort by __cmp__
RECURSIVE InsertSorted(_, _)
InsertSorted(l, x) ==
    IF l = <<>> THEN <<x>>
    ELSE IF MetadataCmp(x, l[Len(l)]) = -1
         THEN InsertSorted(SubSeq(l, 1, Len(l) - 1), x) \o <<l[Len(l)]>>
         ELSE l \o <<x>>

RECURSIVE SortList(_)
SortList(l) ==
    IF l = <<>> THEN <<>>
    ELSE InsertSorted(SortList(SubSeq(l, 1, Len(l) - 1)), l[Len(l)])

\* the concatenation of a list of lists
RECURSIVE Flatten(_)
Flatten(ll) == IF ll = <<>> THEN <<>> ELSE ll[1] \o Flatten(Tail(ll))

\* get_packages by name that takes the version of the first candidate for
\* the newest one
GetPackagesByNameFirst(repo, name, arch, version, newest_only) ==
    LET inrepo == IF name \in DOMAIN repo.packages
                  THEN repo.packages[name] ELSE <<>>
        sameArch(p) == p.arch = Val(arch)
        package_candidates ==
            IF IsNone(arch) THEN inrepo ELSE SelectSeq(inrepo, sameArch)
        newv == package_candidates[1].version
        newest(p) == VersionEq(p.version, newv)
    IN  IF newest_only /\ Len(package_candidates) > 0
        THEN SelectSeq(package_candidates, newest)
        ELSE IF newest_only THEN <<>>
        ELSE package_candidates

\* Repository.get_packages with name given (lines 127-143)
GetPackagesByName(repo, name, arch, version, newest_only) ==
    LET byname == IF IsNone(version) THEN repo.packages[name]
                  ELSE LET sameVersion(pkg) ==
                               VersionEq(pkg.version, Val(version))
                       IN  SelectSeq(repo.packages[name], sameVersion)
        inrepo == IF name \in DOMAIN repo.packages THEN byname ELSE <<>>
        sameArch(p) == p.arch = Val(arch)
        package_candidates ==
            IF IsNone(arch) THEN inrepo ELSE SelectSeq(inrepo, sameArch)
        newv == package_candidates[Len(package_candidates)].version
        newest(p) == VersionEq(p.version, newv)
    IN  IF newest_only /\ Len(package_candidates) > 0
        THEN SelectSeq(package_candidates, newest)
        ELSE IF newest_only THEN <<>>
        ELSE package_candidates

\* get_packages that looks at the name before it looks at the source
get_packages_name_first(repo, name, arch, version, source, newest_only) ==
    IF ~IsNone(name)
    THEN GetPackagesByName(repo, Val(name), arch, version, newest_only)
    ELSE IF ~IsNone(source)
    THEN LET fromSource(package) ==
                 /\ package.source_name = Val(source).source_name
                 /\ VersionEq(package.version, Val(source).version)
         IN  Flatten([i \in 1..Len(Names) |->
                        SelectSeq(repo.packages[Names[i]], fromSource)])
    ELSE Flatten([i \in 1..Len(Names) |->
             GetPackagesByName(repo, Names[i], arch, None, newest_only)])

\* Repository.get_packages
get_packages(repo, name, arch, version, source, newest_only) ==
    IF ~IsNone(source)
    THEN LET fromSource(package) ==
                 /\ package.source_name = Val(source).source_name
                 /\ VersionEq(package.version, Val(source).version)
         IN  Flatten([i \in 1..Len(Names) |->
                        SelectSeq(repo.packages[Names[i]], fromSource)])
    ELSE IF ~IsNone(name)
    THEN GetPackagesByName(repo, Val(name), arch, version, newest_only)
    ELSE Flatten([i \in 1..Len(Names) |->
             GetPackagesByName(repo, Names[i], arch, None, newest_only)])

\* is_newer that looks at the packages of every architecture
is_newer_any_arch(repo, pkg) ==
    LET matches == get_packages(repo, Some(pkg.name), None, None, None, TRUE)
    IN  matches = <<>> \/ MetadataCmp(pkg, matches[Len(matches)]) = 1

\* is_newer with >= in the place of >
is_newer_or_equal(repo, pkg) ==
    LET matches == get_packages(repo, Some(pkg.name), Some(pkg.arch), None,
                                None, TRUE)
    IN  matches = <<>> \/ MetadataCmp(pkg, matches[Len(matches)]) \in {0, 1}

\* Repository.is_newer
is_newer(repo, pkg) ==
    LET matches == get_packages(repo, Some(pkg.name), Some(pkg.arch),
                                None, None, TRUE)
    IN  matches = <<>> \/ MetadataCmp(pkg, matches[Len(matches)]) = 1

\* Repository.__contains__
Contains(repo, pkg) ==
    Len(get_packages(repo, Some(pkg.name), Some(pkg.arch),
                     Some(pkg.version), None, TRUE)) > 0

(***************************************************************************)
(* The release tree.  variant is the ecosystem ("yum" or "deb"); a world  *)
(* w = [releases, files, log] holds the Release objects of the Manager     *)
(* (releases[r][os][arch] is a Repository), the artifact files present    *)
(* under the release trees and the log of the effects of the operation in *)
(* progress.                                                               *)
(***************************************************************************)

\* operating systems in the iteration order of Release.repositories
OSes == <<"o1", "o2">>

\* the architecture cells of every operating system, in the iteration order
\* of Release.repositories[os]: yum.Release and deb.Release both name the
\* source cell "src"
Arches(v) == IF v = "yum" THEN <<"src", "i386", "x86_64">>
             ELSE <<"src", "amd64">>

SeqToSet(q) == {q[i] : i \in 1..Len(q)}

\* the path of a file: the directory and the basename
Path(dir, base) == [dir |-> dir, base |-> base]

\* os.path.basename
BaseName(path) == path.base

\* source_name[:source_name.find("_")]: a source_name is <<p, q>> for the
\* string p + "_" + q
SourcePrefix(source_name) == source_name[1]

\* Release.repositories_for_os_arch of __init__.py: keys <<os, arch>>
repositories_for_os_arch(v, rel, osname, arch) ==
    IF ~IsNone(osname)
    THEN IF ~IsNone(arch)
         THEN << <<Val(osname), Val(arch)>> >>
         ELSE [i \in 1..Len(Arches(v)) |-> <<Val(osname), Arches(v)[i]>>]
    ELSE Flatten([o \in 1..Len(OSes) |->
             IF OSes[o] \in DOMAIN rel
             THEN [i \in 1..Len(Arches(v)) |-> <<OSes[o], Arches(v)[i]>>]
             ELSE <<>>])

\* yum.Release.repositories_for_package
YumRepositoriesForPackage(v, rel, package) ==
    IF package.arch \in {"noarch", "i686", "i386"}
    THEN IF package.os \in DOMAIN rel
         THEN LET notsrc(k) == k[2] # "src"
              IN  SelectSeq([i \in 1..Len(Arches(v)) |->
                             <<package.os, Arches(v)[i]>>], notsrc)
         ELSE <<>>
    ELSE IF package.os \in DOMAIN rel
         THEN << <<package.os, package.arch>> >>
         ELSE <<>>

\* deb.Release.repositories_for_package
DebRepositoriesForPackage(rel, package) ==
    LET repoarch == IF package.arch = "all" THEN "src" ELSE package.arch
    IN  IF package.os \in DOMAIN rel
        THEN << <<package.os, repoarch>> >>
        ELSE <<>>

repositories_for_package(v, rel, package) ==
    IF v = "yum" THEN YumRepositoriesForPackage(v, rel, package)
    ELSE DebRepositoriesForPackage(rel, package)

\* Release.get_packages
ReleaseGetPackages(v, rel, name, os, version, arch, source, newest_only) ==
    LET keys == repositories_for_os_arch(v, rel, os, arch)
    IN  Flatten([i \in 1..Len(keys) |->
            get_packages(rel[keys[i][1]][keys[i][2]],
                         name, arch, version, source, newest_only)])

\* is_newer of a Release that asks every repository of the routing
ReleaseIsNewerAll(v, rel, package) ==
    LET keys == repositories_for_package(v, rel, package)
    IN  \A i \in 1..Len(keys) : is_newer(rel[keys[i][1]][keys[i][2]], package)

\* Release.is_newer
ReleaseIsNewer(v, rel, package) ==
    LET keys == repositories_for_package(v, rel, package)
    IN  \E i \in 1..Len(keys) : is_newer(rel[keys[i][1]][keys[i][2]], package)

\* the append without the sort
AppendUnsorted(packages, x) ==
    [packages EXCEPT ![x.name] = Append(@, x)]

\* the list l of one name with x appended and the list sorted
AppendSorted(packages, x) ==
    [packages EXCEPT ![x.name] = SortList(Append(@, x))]

\* yum.Repository.add_package on releases[r][k[1]][k[2]] of the world w.
\* raised tells whether the call ended in an exception.
YumAddPackage(w, r, k, package, update_metadata) ==
    LET repo == w.releases[r][k[1]][k[2]]
        dest_rpm_path == Path(<<r, k[1], k[2]>>, BaseName(package.path))
        copied == dest_rpm_path \notin w.files
        new_package == Metadata(package.name, package.version.strversion,
                                Some(package.version.release), dest_rpm_path,
                                package.arch, package.source_name, k[1])
        repo2 == [packages |-> AppendSorted(repo.packages, new_package),
                  dirty    |-> IF update_metadata THEN repo.dirty ELSE TRUE]
    IN  [releases |-> [w.releases EXCEPT ![r][k[1]][k[2]] = repo2],
         files    |-> w.files \cup {dest_rpm_path},
         log      |-> w.log
                      \o (IF copied THEN << <<"copy", dest_rpm_path>> >>
                          ELSE <<>>)
                      \o << <<"append", r, k, new_package>> >>
                      \o (IF update_metadata THEN << <<"regen", r, k>> >>
                          ELSE <<>>),
         raised   |-> FALSE]

\* deb.Repository.add_package.  update_metadata(self, force) has no default
\* for force, so both calls self.update_metadata() raise TypeError: the
\* first (line 190) before the package is appended, the second (line 208)
\* after it is appended and the list sorted.
DebAddPackage(w, r, k, package, update_metadata) ==
    LET repo == w.releases[r][k[1]][k[2]]
        dest_path == Path(<<r, "pool", SourcePrefix(package.source_name)>>,
                          BaseName(package.path))
        included == dest_path \notin w.files
        files2 == w.files \cup {dest_path}
        log2 == w.log \o (IF included THEN << <<"copy", dest_path>> >>
                          ELSE <<>>)
        new_package == Metadata(package.name, package.version.strversion,
                                Some(package.version.release), dest_path,
                                package.arch, package.source_name, k[1])
        repo2 == [packages |-> AppendSorted(repo.packages, new_package),
                  dirty    |-> IF update_metadata THEN repo.dirty ELSE TRUE]
    IN  IF included /\ update_metadata
        THEN [releases |-> w.releases, files |-> files2, log |-> log2,
              raised |-> TRUE]
        ELSE [releases |-> [w.releases EXCEPT ![r][k[1]][k[2]] = repo2],
              files    |-> files2,
              log      |-> log2 \o << <<"append", r, k, new_package>> >>,
              raised   |-> update_metadata]

RepositoryAddPackage(v, w, r, k, package, update_metadata) ==
    IF v = "yum" THEN YumAddPackage(w, r, k, package, update_metadata)
    ELSE DebAddPackage(w, r, k, package, update_metadata)

\* update_metadata without the test of force and dirty
RepositoryUpdateMetadataAlways(w, r, k, force) ==
    [w EXCEPT !.releases[r][k[1]][k[2]].dirty = FALSE,
              !.log = @ \o << <<"regen", r, k>> >>]

\* update_metadata that regenerates and leaves the dirty flag as it was
RepositoryUpdateMetadataKeepDirty(w, r, k, force) ==
    LET repo == w.releases[r][k[1]][k[2]]
    IN  IF force \/ repo.dirty
        THEN [w EXCEPT !.log = @ \o << <<"regen", r, k>> >>]
        ELSE w

\* Repository.update_metadata of yum.py and deb.py
RepositoryUpdateMetadata(w, r, k, force) ==
    LET repo == w.releases[r][k[1]][k[2]]
    IN  IF force \/ repo.dirty
        THEN [w EXCEPT !.releases[r][k[1]][k[2]].dirty = FALSE,
                       !.log = @ \o << <<"regen", r, k>> >>]
        ELSE w

\* Release.add_package: the repositories in turn, until one raises
RECURSIVE AddToRepositories(_, _, _, _, _, _, _)
AddToRepositories(v, w, r, keys, i, package, update_metadata) ==
    IF i > Len(keys) \/ w.raised THEN w
    ELSE AddToRepositories(v,
             RepositoryAddPackage(v, w, r, keys[i], package, update_metadata),
             r, keys, i + 1, package, update_metadata)

\* add_package of a Release that inserts into the first repository of
\* the routing only
ReleaseAddPackageFirst(v, w, r, package, update_metadata) ==
    AddToRepositories(v, w, r,
        SubSeq(repositories_for_package(v, w.releases[r], package), 1, 1),
        1, package, update_metadata)

\* Release.add_package
ReleaseAddPackage(v, w, r, package, update_metadata) ==
    AddToRepositories(v, w, r,
        repositories_for_package(v, w.releases[r], package),
        1, package, update_metadata)

\* Release.update_metadata
RECURSIVE UpdateRepositories(_, _, _, _, _)
UpdateRepositories(w, r, keys, i, force) ==
    IF i > Len(keys) THEN w
    ELSE UpdateRepositories(RepositoryUpdateMetadata(w, r, keys[i], force),
                            r, keys, i + 1, force)

ReleaseUpdateMetadata(v, w, r, osname, arch, force) ==
    UpdateRepositories(w, r,
        repositories_for_os_arch(v, w.releases[r], osname, arch), 1, force)

(***************************************************************************)
(* __init__.py: Manager                                                    *)
(***************************************************************************)

\* Manager.get_release: the Manager holds the cache and one release
get_release(releasename) ==
    IF releasename = "cache" THEN "cache" ELSE "unstable"

\* str.replace("_", "-") on the names used as arguments
package_name(name) ==
    IF IsNone(name) THEN None
    ELSE Some(IF Val(name) = "b_c" THEN "b-c" ELSE Val(name))

\* re.match(exclude, name) is not None: a pattern is given by the set of
\* names it matches
ReMatch(exclude, name) == name \in exclude

\* a pattern that is not a regular expression, such as "(": re.match
\* compiles the pattern when it is called and raises re.error
Malformed == {"re.error"}

\* lines 380-383: re.match is reached with a malformed pattern, which
\* happens when no pattern before it in the list matches the name
SkipRaises(exclude_package_names, package) ==
    /\ ~IsNone(exclude_package_names)
    /\ \E i \in 1..Len(Val(exclude_package_names)) :
           /\ Val(exclude_package_names)[i] = Malformed
           /\ \A k \in 1..(i - 1) :
                  ~ReMatch(Val(exclude_package_names)[k], package.name)

\* lines 378-383 with skip never set
SkipNever(exclude_package_names, package) == FALSE

\* lines 378-383: whether one of the patterns matches the package's name
Skip(exclude_package_names, package) ==
    /\ ~IsNone(exclude_package_names)
    /\ \E i \in 1..Len(Val(exclude_package_names)) :
           ReMatch(Val(exclude_package_names)[i], package.name)

\* lines 377-388: the loop over the packages of one source build.
\* st = [w, seen, result]; an exception raised by re.match ends the call
\* with the world as it is (w.raised)
RECURSIVE PromotePackages(_, _, _, _, _, _, _)
PromotePackages(v, st, to, pkgs, j, dryrun, exclude) ==
    IF j > Len(pkgs) \/ st.w.raised THEN st
    ELSE LET package == pkgs[j]
             st2 == IF SkipRaises(exclude, package)
                    THEN [st EXCEPT !.w.raised = TRUE]
                    ELSE
                    IF /\ ~Skip(exclude, package)
                       /\ ReleaseIsNewer(v, st.w.releases[to], package)
                    THEN [st EXCEPT
                            !.w = IF ~dryrun
                                  THEN ReleaseAddPackage(v, @, to, package,
                                                         FALSE)
                                  ELSE @,
                            !.result = Append(@, package)]
                    ELSE st
         IN  PromotePackages(v, st2, to, pkgs, j + 1, dryrun, exclude)

\* lines 374-388: the loop over the source candidates
RECURSIVE PromoteCandidates(_, _, _, _, _, _, _, _)
PromoteCandidates(v, st, from, to, cands, i, dryrun, exclude) ==
    IF i > Len(cands) \/ st.w.raised THEN st
    ELSE LET src == cands[i]
             pkgs == ReleaseGetPackages(v, st.w.releases[from], None, None,
                                        None, None, Some(src), FALSE)
             st2 == IF src.name \notin st.seen
                    THEN PromotePackages(v,
                             [st EXCEPT !.seen = @ \cup {src.name}],
                             to, pkgs, 1, dryrun, exclude)
                    ELSE st
         IN  PromoteCandidates(v, st2, from, to, cands, i + 1, dryrun, exclude)

\* the return of promote_packages without the test of dryrun
PromoteReturnAlways(v, st, to, dryrun) ==
    [w      |-> ReleaseUpdateMetadata(v, st.w, to, None, None, FALSE),
     result |-> st.result]

\* lines 389-392: the metadata of the destination release is brought up to
\* date unless the run is a dry run, and the list is returned
PromoteReturn(v, st, to, dryrun) ==
    [w      |-> IF ~dryrun /\ ~st.w.raised
                THEN ReleaseUpdateMetadata(v, st.w, to, None, None, FALSE)
                ELSE st.w,
     result |-> st.result]

\* Manager.promote_packages: the world after the call and the result
promote_packages(v, w, from_release, to_release, os, name, version, dryrun, exclude_package_names) ==
    LET from == IF IsNone(from_release) THEN "cache"
                ELSE get_release(Val(from_release))
        src_candidates ==
            ReleaseGetPackages(v, w.releases[from], package_name(name), os,
                               version, None, None, TRUE)
        to == get_release(to_release)
        st == PromoteCandidates(v, [w |-> w, seen |-> {}, result |-> <<>>],
                                from, to, src_candidates, 1, dryrun,
                                exclude_package_names)
    IN  PromoteReturn(v, st, to, dryrun)

(***************************************************************************)
(* The state machine: one Manager with its cache and the release          *)
(* "unstable", and the operations of its public interface.                 *)
(***************************************************************************)
VARIABLES variant, releases, files, last, nops

vars == <<variant, releases, files, last, nops>>

\* the number of packages in the cache when the Manager is constructed
MaxInitPkgs == 2

\* the number of operations in one run
MaxOps == 2

ReleaseNames == {"cache", "unstable"}

\* version and release strings: "1" and "2"
Str1 == <<49>>
Str2 == <<50>>

\* the builds: version and release
VersionPairs == {<<Str1, Str1>>, <<Str1, Str2>>, <<Str2, Str1>>}

\* the architecture the Release routes by a rule of its own: yum sends
\* "noarch" to every binary cell, deb sends "all" to the source cell
OwnRuleArch(v) == IF v = "yum" THEN "noarch" ELSE "all"

\* A package of a build: the artifact lies in the build tree of its
\* operating system, and its source_name is the source package and the
\* version (deb.py lines 90 and 127, the sourcerpm of yum.py).
BuildPackage(n, vr, a, s, o) ==
    Metadata(n, vr[1], Some(vr[2]),
             Path(<<"build", o>>, <<n, vr[1], vr[2], a>>), a, <<s, vr[1]>>, o)

\* the packages the builds produce: a source package, whose source is
\* itself, and the package "b-c" built from the source package "a"
Universe(v) ==
    { BuildPackage(n, vr, "src", n, o) :
        n \in NameSet, vr \in VersionPairs, o \in SeqToSet(OSes) }
    \cup
    { BuildPackage("b-c", vr, OwnRuleArch(v), "a", o) :
        vr \in VersionPairs, o \in SeqToSet(OSes) }

\* the packages of each variant
YumPackages == Universe("yum")
DebPackages == Universe("deb")
Packages(v) == IF v = "yum" THEN YumPackages ELSE DebPackages

\* the packages handed to Release.add_package directly
AddPkgs(v) ==
    {p \in Packages(v) : /\ p.os = OSes[1]
                         /\ p.version.strversion = Str1
                         /\ p.version.release = Str1}

\* the subsets of U of at most k elements
RECURSIVE KSubsets(_, _)
KSubsets(U, k) ==
    IF k = 0 THEN {{}}
    ELSE LET smaller == KSubsets(U, k - 1)
         IN  smaller \cup {S \cup {x} : S \in smaller, x \in U}

RECURSIVE SetToSeq(_)
SetToSeq(S) ==
    IF S = {} THEN <<>>
    ELSE LET x == CHOOSE y \in S : TRUE
         IN  <<x>> \o SetToSeq(S \ {x})

EmptyRepository == [packages |-> [n \in NameSet |-> <<>>], dirty |-> FALSE]

EmptyRelease(v) ==
    [o \in SeqToSet(OSes) |-> [a \in SeqToSet(Arches(v)) |-> EmptyRepository]]

EmptyWorld(v) ==
    [releases |-> [r \in ReleaseNames |-> EmptyRelease(v)],
     files    |-> {},
     log      |-> <<>>,
     raised   |-> FALSE]

\* Repository.__init__ of every cell of release r over a tree that holds
\* the packages pkgs where the Release routes them: the lists are read,
\* then sorted, and dirty is False
RECURSIVE Load(_, _, _, _, _)
Load(v, w, r, pkgs, i) ==
    IF i > Len(pkgs)
    THEN [w EXCEPT !.releases[r] =
              [o \in DOMAIN w.releases[r] |->
                  [a \in DOMAIN w.releases[r][o] |->
                      [w.releases[r][o][a] EXCEPT !.dirty = FALSE]]],
                   !.log = <<>>]
    ELSE Load(v, ReleaseAddPackage(v, w, r, pkgs[i], FALSE), r, pkgs, i + 1)

World == [releases |-> releases, files |-> files, log |-> <<>>,
          raised |-> FALSE]

Init ==
    /\ variant \in {"yum", "deb"}
    /\ \E S \in KSubsets(Packages(variant), MaxInitPkgs) :
          \E w \in {Load(variant, EmptyWorld(variant), "cache",
                          SetToSeq(S), 1)} :
              /\ releases = w.releases
              /\ files = w.files
    /\ last = [op |-> "init"]
    /\ nops = 0

\* Release.add_package called on release r
AddPackage(r, package, update_metadata) ==
    /\ nops < MaxOps
    /\ \E w \in {ReleaseAddPackage(variant, World, r, package,
                                    update_metadata)} :
           /\ releases' = w.releases
           /\ files' = w.files
           /\ last' = [op |-> "add_package", release |-> r,
                       package |-> package,
                       update_metadata |-> update_metadata,
                       raised |-> w.raised, log |-> w.log]
    /\ nops' = nops + 1
    /\ UNCHANGED variant

\* Release.update_metadata called on release r
UpdateMetadata(r, osname, force) ==
    /\ nops < MaxOps
    /\ \E w \in {ReleaseUpdateMetadata(variant, World, r, osname, None,
                                       force)} :
           /\ releases' = w.releases
           /\ files' = w.files
           /\ last' = [op |-> "update_metadata", release |-> r,
                       osname |-> osname, force |-> force, log |-> w.log]
    /\ nops' = nops + 1
    /\ UNCHANGED variant

\* the arguments of promote_packages
PromoteArgs ==
    { args \in [from_release : {None, Some("cache")},
                to_release   : {"unstable"},
                os           : {None, Some(OSes[1])},
                name         : {None, Some("a"), Some("b_c")},
                version      : {None, Some(Version(Str1, None))},
                dryrun       : BOOLEAN,
                exclude_package_names : {None, Some(<<{"b-c"}>>)}] :
        /\ ~IsNone(args.from_release) => IsNone(args.os) /\ IsNone(args.name)
        /\ ~IsNone(args.version) <=> args.name = Some("a")
        /\ ~IsNone(args.exclude_package_names) => IsNone(args.version) }

PromoteOf(w, args) ==
    promote_packages(variant, w, args.from_release, args.to_release, args.os,
                     args.name, args.version, args.dryrun,
                     args.exclude_package_names)

\* Manager.promote_packages
Promote(args) ==
    /\ nops < MaxOps
    /\ \E p \in {PromoteOf(World, args)} :
           /\ releases' = p.w.releases
           /\ files' = p.w.files
           /\ last' = [op |-> "promote_packages", args |-> args,
                       result |-> p.result, raised |-> p.w.raised,
                       log |-> p.w.log]
    /\ nops' = nops + 1
    /\ UNCHANGED variant

Next ==
    \/ \E r \in ReleaseNames, p \in AddPkgs(variant), u \in BOOLEAN :
           AddPackage(r, p, u)
    \/ \E o \in {None, Some(OSes[1])}, f \in BOOLEAN :
           UpdateMetadata("unstable", o, f)
    \/ \E args \in PromoteArgs : Promote(args)

Spec == Init /\ [][Next]_vars

(***************************************************************************)
(* The same Manager called with lists of exclusion patterns that hold a    *)
(* malformed pattern: alone, after a pattern that matches one name, and    *)
(* after a pattern that matches every name.                                *)
(***************************************************************************)
MalformedArgs ==
    [from_release : {None},
     to_release   : {"unstable"},
     os           : {None},
     name         : {None, Some("a")},
     version      : {None},
     dryrun       : BOOLEAN,
     exclude_package_names :
         {Some(<<Malformed>>), Some(<<{"b-c"}, Malformed>>),
          Some(<<NameSet, Malformed>>)}]

NextExclude ==
    \/ Next
    \/ \E args \in MalformedArgs : Promote(args)

SpecExclude == Init /\ [][NextExclude]_vars

(***************************************************************************)
(* A Manager whose destination release is constructed over a tree that     *)
(* holds packages already: every Repository reads the metadata of its own  *)
(* directory, so a package routed to several repositories may be held by   *)
(* some of them only.  The operations are the promotions.                  *)
(***************************************************************************)
MaxHeld == 1

\* the keys <<os, arch>> of the repositories of a release
RepositoryKeys(v) == SeqToSet(OSes) \X SeqToSet(Arches(v))

\* the pairs <<repository, package>> in which the repository is one that
\* release r routes the package to
HeldPairs(v, r) ==
    {h \in RepositoryKeys(v) \X AddPkgs(v) :
        h[1] \in SeqToSet(repositories_for_package(v, EmptyRelease(v), h[2]))}

\* Repository.__init__ of the repositories of release r over directories
\* that hold the pairs of held
RECURSIVE LoadRepositories(_, _, _, _, _)
LoadRepositories(v, w, r, held, i) ==
    IF i > Len(held)
    THEN [w EXCEPT !.releases[r] =
              [o \in DOMAIN w.releases[r] |->
                  [a \in DOMAIN w.releases[r][o] |->
                      [w.releases[r][o][a] EXCEPT !.dirty = FALSE]]],
                   !.log = <<>>]
    ELSE LoadRepositories(v,
             RepositoryAddPackage(v, w, r, held[i][1], held[i][2], FALSE),
             r, held, i + 1)

InitHeld ==
    /\ variant \in {"yum", "deb"}
    /\ \E S \in KSubsets(Packages(variant), MaxInitPkgs),
          H \in KSubsets(HeldPairs(variant, "unstable"), MaxHeld) :
          \E w \in {LoadRepositories(variant,
                        Load(variant, EmptyWorld(variant), "cache",
                             SetToSeq(S), 1),
                        "unstable", SetToSeq(H), 1)} :
              /\ releases = w.releases
              /\ files = w.files
    /\ last = [op |-> "init"]
    /\ nops = 0

NextHeld == \E args \in PromoteArgs : Promote(args)

SpecHeld == InitHeld /\ [][NextHeld]_vars

(***************************************************************************)
(* Two processes, each with its own Repository object over the same        *)
(* directory unstable/<os>/src, call yum.Repository.add_package.  No lock  *)
(* is taken, so the steps of the two calls interleave: the test of         *)
(* os.path.exists, the copy, and the rest of the call, which touches only  *)
(* the process's own object.  releases[p] is the Repository object of      *)
(* process p, files the file system both see, last.copies[d] the number of *)
(* times shutil.copy has written the path d.                               *)
(***************************************************************************)
Procs == {1, 2}

SharedKey == <<OSes[1], "src">>

\* the packages handed to add_package
SharedPkgs ==
    {p \in YumPackages : /\ p.os = OSes[1] /\ p.arch = "src"
                         /\ p.name = "a" /\ p.version.strversion = Str1}

\* lines 182-183: dest_rpm_path
DestRpmPath(package) ==
    Path(<<"unstable", SharedKey[1], SharedKey[2]>>, BaseName(package.path))

SharedPaths == {DestRpmPath(p) : p \in SharedPkgs}

\* yum.Repository.__init__ over a directory that holds the packages of S
RECURSIVE LoadShared(_, _)
LoadShared(repo, pkgs) ==
    IF pkgs = <<>> THEN repo
    ELSE LoadShared(
             [repo EXCEPT !.packages =
                 AppendSorted(@, Metadata(pkgs[1].name,
                     pkgs[1].version.strversion,
                     Some(pkgs[1].version.release), DestRpmPath(pkgs[1]),
                     pkgs[1].arch, pkgs[1].source_name, SharedKey[1]))],
             Tail(pkgs))

InitShared ==
    /\ variant = "yum"
    /\ \E S \in SUBSET SharedPkgs :
          /\ releases = [p \in Procs |->
                            LoadShared(EmptyRepository, SetToSeq(S))]
          /\ files = {DestRpmPath(p) : p \in S}
    /\ last = [op      |-> "init",
               pc      |-> [p \in Procs |-> "idle"],
               package |-> [p \in Procs |-> None],
               copies  |-> [d \in SharedPaths |-> 0]]
    /\ nops = 0

\* line 181: process p enters add_package(package)
Enter(p, package) ==
    /\ nops < MaxOps
    /\ last.pc[p] = "idle"
    /\ last' = [last EXCEPT !.op = "add_package", !.pc[p] = "exists",
                            !.package[p] = Some(package)]
    /\ nops' = nops + 1
    /\ UNCHANGED <<variant, releases, files>>

\* line 184: if not os.path.exists(dest_rpm_path)
Exists(p) ==
    /\ last.pc[p] = "exists"
    /\ last' = [last EXCEPT !.op = "exists",
                   !.pc[p] = IF DestRpmPath(Val(last.package[p])) \in files
                             THEN "append" ELSE "copy"]
    /\ UNCHANGED <<variant, releases, files, nops>>

\* line 185: shutil.copy(package.path, dest_rpm_path)
Copy(p) ==
    /\ last.pc[p] = "copy"
    /\ \E d \in {DestRpmPath(Val(last.package[p]))} :
          /\ files' = files \cup {d}
          /\ last' = [last EXCEPT !.op = "copy", !.pc[p] = "append",
                                  !.copies[d] = @ + 1]
    /\ UNCHANGED <<variant, releases, nops>>

\* lines 186-204: the entry is appended to the process's own list, the
\* list sorted, the Repository marked dirty (update_metadata=False)
AppendEntry(p) ==
    /\ last.pc[p] = "append"
    /\ \E package \in {Val(last.package[p])} :
          releases' = [releases EXCEPT ![p] =
              [packages |-> AppendSorted(@.packages,
                   Metadata(package.name, package.version.strversion,
                            Some(package.version.release),
                            DestRpmPath(package), package.arch,
                            package.source_name, SharedKey[1])),
               dirty    |-> TRUE]]
    /\ last' = [last EXCEPT !.op = "append", !.pc[p] = "idle",
                            !.package[p] = None]
    /\ UNCHANGED <<variant, files, nops>>

NextShared ==
    \E p \in Procs :
        \/ \E package \in SharedPkgs : Enter(p, package)
        \/ Exists(p)
        \/ Copy(p)
        \/ AppendEntry(p)

SpecShared == InitShared /\ [][NextShared]_vars

(***************************************************************************)
(* The Manager constructed with os_names: the releases are built over the  *)
(* operating systems of the cache that os_names lists (yum.py lines        *)
(* 331-348), the cache over all of them.                                   *)
(***************************************************************************)
os_names == {OSes[1]}

EmptyWorldOsNames(v) ==
    [releases |-> [r \in ReleaseNames |->
                      IF r = "cache" THEN EmptyRelease(v)
                      ELSE [o \in os_names |-> EmptyRelease(v)[o]]],
     files    |-> {},
     log      |-> <<>>,
     raised   |-> FALSE]

InitOsNames ==
    /\ variant \in {"yum", "deb"}
    /\ \E S \in KSubsets(Packages(variant), MaxInitPkgs) :
          \E w \in {Load(variant, EmptyWorldOsNames(variant), "cache",
                          SetToSeq(S), 1)} :
              /\ releases = w.releases
              /\ files = w.files
    /\ last = [op |-> "init"]
    /\ nops = 0

SpecOsNames == InitOsNames /\ [][Next]_vars

(***************************************************************************)
(* package.py on its own: three Version objects are constructed and then   *)
(* compared with one another.  No Manager operation takes place; last      *)
(* holds the objects and the outcome of the last comparison.               *)
(***************************************************************************)

\* str(n) of a non-negative integer
RECURSIVE Digits(_)
Digits(n) == IF n < 10 THEN <<48 + n>>
             ELSE Digits(n \div 10) \o <<48 + (n % 10)>>

\* ".".join(str(c) for c in components)
RECURSIVE Dotted(_)
Dotted(components) ==
    IF Len(components) = 1 THEN Digits(components[1])
    ELSE Digits(components[1]) \o <<46>> \o Dotted(Tail(components))

\* the version strings "1", "1.0", "0.101", "1.2.9" and "1.2.10"
VersionStrings ==
    { Dotted(<<1>>), Dotted(<<1, 0>>), Dotted(<<0, 101>>),
      Dotted(<<1, 2, 9>>), Dotted(<<1, 2, 10>>) }

\* the release strings "rc1", "beta1" and "alpha1"
StrRc1 == <<114, 99, 49>>
StrBeta1 == <<98, 101, 116, 97, 49>>
StrAlpha1 == <<97, 108, 112, 104, 97, 49>>

\* the release arguments: none, "1", "1.0" and the pre-release tags
ReleaseArgs ==
    { None, Some(Str1), Some(Dotted(<<1, 0>>)), Some(StrRc1),
      Some(StrBeta1), Some(StrAlpha1) }

VersionObjects ==
    { Version(v, r) : v \in VersionStrings, r \in ReleaseArgs }

\* the positions of the objects that are compared
Positions == 1..3

InitVersion ==
    /\ variant = "yum"
    /\ releases = EmptyWorld("yum").releases
    /\ files = {}
    /\ nops = 0
    /\ last \in [op : {"Version"},
                  objs : [Positions -> VersionObjects]]

\* the comparisons of the object at position i with the one at position j
Compare(i, j) ==
    /\ i # j
    /\ last' = [op   |-> "compare",
                objs |-> last.objs,
                i    |-> i,
                j    |-> j,
                lt   |-> VersionLt(last.objs[i], last.objs[j]),
                eq   |-> VersionEq(last.objs[i], last.objs[j]),
                ne   |-> VersionNe(last.objs[i], last.objs[j]),
                gt   |-> VersionGt(last.objs[i], last.objs[j]),
                cmp  |-> VersionCmp(last.objs[i], last.objs[j])]
    /\ UNCHANGED <<variant, releases, files, nops>>

NextVersion == \E i, j \in Positions : Compare(i, j)

SpecVersion == InitVersion /\ [][NextVersion]_vars

(***************************************************************************)
(* versioncompare.py on its own: two version strings are written, each a   *)
(* base followed by a pre-release tag and a sub-revision, and then         *)
(* converted.  last holds the strings and their floats.                    *)
(***************************************************************************)

\* the bases: "1.2", and the malformed "", "x" and "1.x"
Bases == { Dotted(<<1, 2>>), <<>>, <<120>>, <<49, 46, 120>> }

\* the spellings of the tags: none, a, alpha, b, beta, .beta, _BETA, rc
StrAlpha == <<97, 108, 112, 104, 97>>
TagSpellings ==
    { <<>>, StrA, StrAlpha, StrB, StrBeta, StrDotBeta, StrUpperBeta, StrRc }

\* the sub-revisions: none, 1, 2 and 200
SubRevisions == { None, Some(1), Some(2), Some(200) }

\* a version string as it is written: the sub-revision follows a tag
VersionTexts ==
    { t \in [base : Bases, tag : TagSpellings, sub : SubRevisions] :
        t.tag = <<>> => IsNone(t.sub) }

Text(t) ==
    t.base \o t.tag \o (IF IsNone(t.sub) THEN <<>> ELSE Digits(Val(t.sub)))

InitFloat ==
    /\ variant = "yum"
    /\ releases = EmptyWorld("yum").releases
    /\ files = {}
    /\ nops = 0
    /\ last \in [op : {"str"}, texts : [1..2 -> VersionTexts]]

\* version2float of the two strings
Version2Float ==
    /\ last.op = "str"
    /\ last' = [op    |-> "version2float",
                texts |-> last.texts,
                keys  |-> [i \in 1..2 |-> version2float(Text(last.texts[i]))]]
    /\ UNCHANGED <<variant, releases, files, nops>>

\* Version.__init__ on the first string, with no release
NewVersion ==
    /\ last.op = "str"
    /\ \E obj \in {Version(Text(last.texts[1]), None)} :
          last' = [op     |-> "Version",
                   texts  |-> last.texts,
                   raised |-> Raised(obj.version),
                   obj    |-> obj]
    /\ UNCHANGED <<variant, releases, files, nops>>

NextFloat == Version2Float \/ NewVersion

SpecFloat == InitFloat /\ [][NextFloat]_vars

(***************************************************************************)
(* packages.py and installers.py: the Repository of the installer          *)
(* "GT6-BINARIES-MAC" is constructed over a directory of files, and a      *)
(* package of it is added to a second, empty Repository.                   *)
(***************************************************************************)

\* the number of files in the directory
MaxListing == 3

\* the file names "G-6.0.pkg", "G-6.0-build1.pkg", "G-6.1.pkg",
\* "G-6.1-build2.pkg" and "notes.txt"
FileNames ==
    { <<71, 45, 54, 46, 48, 46, 112, 107, 103>>,
      <<71, 45, 54, 46, 48, 45, 98, 117, 105, 108, 100, 49, 46, 112, 107, 103>>,
      <<71, 45, 54, 46, 49, 46, 112, 107, 103>>,
      <<71, 45, 54, 46, 49, 45, 98, 117, 105, 108, 100, 50, 46, 112, 107, 103>>,
      <<110, 111, 116, 101, 115, 46, 116, 120, 116>> }

\* the strings of the pattern
StrBuild == <<45, 98, 117, 105, 108, 100>>
StrDotPkg == <<46, 112, 107, 103>>
StrDotTarGz == <<46, 116, 97, 114, 46, 103, 122>>

\* [a-zA-Z_]
IsNameChar(c) == c \in 65..90 \/ c \in 97..122 \/ c = 95

\* s matches ([0-9.]|beta|rc)* as a whole
RECURSIVE IsVersionText(_)
IsVersionText(s) ==
    IF s = <<>> THEN TRUE
    ELSE IF IsDigit(s[1]) \/ s[1] = 46 THEN IsVersionText(Tail(s))
    ELSE IF StartsAt(s, StrBeta, 1)
         THEN IsVersionText(SubSeq(s, 5, Len(s)))
    ELSE IF StartsAt(s, StrRc, 1)
         THEN IsVersionText(SubSeq(s, 3, Len(s)))
    ELSE FALSE

\* (\.pkg|\.tar\.gz) at position i of f
ExtensionAt(f, i) == StartsAt(f, StrDotPkg, i) \/ StartsAt(f, StrDotTarGz, i)

\* the end of the digits of (-build(?P<release>[0-9]+)) that starts at
\* position i of f and is followed by the extension; 0 if there is none
BuildEnd(f, i) ==
    LET ends == { k \in (i + Len(StrBuild))..Len(f) :
                    /\ StartsAt(f, StrBuild, i)
                    /\ IsDigits(SubSeq(f, i + Len(StrBuild), k))
                    /\ ExtensionAt(f, k + 1) }
    IN  IF ends = {} THEN 0 ELSE CHOOSE k \in ends : \A m \in ends : m <= k

\* the matches of the package_re of GT6-BINARIES-MAC (installers.py line
\* 118) at the start of f: <<i, j>> with the letters f[1..i-1], "-" at i
\* and the version group f[i+1..j]
MacMatches(f) ==
    { m \in (1..Len(f)) \X (1..Len(f)) :
        /\ \A n \in 1..(m[1] - 1) : IsNameChar(f[n])
        /\ f[m[1]] = 45
        /\ m[1] < m[2]
        /\ IsVersionText(SubSeq(f, m[1] + 1, m[2]))
        /\ BuildEnd(f, m[2] + 1) # 0 \/ ExtensionAt(f, m[2] + 1) }

\* m.groupdict() of the match: the version group is greedy, and the
\* release group is None when "-build" does not follow it
MacGroupDict(f) ==
    LET m == CHOOSE x \in MacMatches(f) :
                 \A y \in MacMatches(f) : y[2] <= x[2]
        k == BuildEnd(f, m[2] + 1)
    IN  [name    |-> SubSeq(f, 1, m[2]),
         version |-> SubSeq(f, m[1] + 1, m[2]),
         release |-> IF k # 0
                     THEN Some(SubSeq(f, m[2] + 1 + Len(StrBuild), k))
                     ELSE None]

\* packages.Repository.__init__, lines 44-58: the packages of the files of
\* the listing from position i on, appended to the lists of packages.
\* d.get('release', '0') is None for a release group that did not match.
RECURSIVE ReadListing(_, _, _, _)
ReadListing(packages, reponame, listing, i) ==
    IF i > Len(listing) THEN packages
    ELSE IF MacMatches(listing[i]) = {}
    THEN ReadListing(packages, reponame, listing, i + 1)
    ELSE LET d == MacGroupDict(listing[i])
             pkg == Metadata(d.name, d.version, d.release,
                             Path(<<reponame>>, listing[i]), "src",
                             Path(<<reponame>>, listing[i]), reponame)
             old == IF pkg.name \in DOMAIN packages
                    THEN packages[pkg.name] ELSE <<>>
         IN  ReadListing([n \in DOMAIN packages \cup {pkg.name} |->
                             IF n = pkg.name THEN Append(old, pkg)
                             ELSE packages[n]],
                         reponame, listing, i + 1)

\* packages.Repository.__init__: the lists are read and then sorted
PackagesRepositoryInit(reponame, listing) ==
    LET packages == ReadListing(<<>>, reponame, listing, 1)
    IN  [packages |-> [n \in DOMAIN packages |-> SortList(packages[n])],
         dirty    |-> FALSE]

\* packages.Repository.add_package with update_metadata=False, lines
\* 62-85, on the repository repo whose directory is reponame
PackagesAddPackage(repo, reponame, package) ==
    LET dest_path == Path(<<reponame>>, BaseName(package.path))
        new_package == Metadata(package.name, package.version.strversion,
                                Some(package.version.release), dest_path,
                                package.arch, package.source_name, "src")
        old == IF package.name \in DOMAIN repo.packages
               THEN repo.packages[package.name] ELSE <<>>
    IN  [packages |-> [n \in DOMAIN repo.packages \cup {package.name} |->
                          IF n = package.name
                          THEN SortList(Append(old, new_package))
                          ELSE repo.packages[n]],
         dirty    |-> TRUE]

\* the listings: the sequences of distinct file names
Listings ==
    UNION { { l \in [1..n -> FileNames] :
                \A i, j \in 1..n : i # j => l[i] # l[j] } :
            n \in 0..MaxListing }

InitInstallers ==
    /\ variant = "installers"
    /\ releases = <<>>
    /\ files = {}
    /\ nops = 0
    /\ last \in [op : {"listdir"}, listing : Listings]

\* the Repository "mac" of the cache is constructed over the listing
InstallerRepositoryInit ==
    /\ last.op = "listdir"
    /\ last' = [op |-> "Repository.__init__",
                listing |-> last.listing,
                cache |-> PackagesRepositoryInit("mac", last.listing),
                dest  |-> PackagesRepositoryInit("release", <<>>)]
    /\ UNCHANGED <<variant, releases, files, nops>>

\* a package of the cache is added to the Repository of the release
InstallerAddPackage ==
    /\ last.op = "Repository.__init__"
    /\ \E n \in DOMAIN last.cache.packages :
          \E i \in 1..Len(last.cache.packages[n]) :
             last' = [op |-> "add_package",
                      listing |-> last.listing,
                      cache |-> last.cache,
                      dest  |-> PackagesAddPackage(last.dest, "release",
                                    last.cache.packages[n][i])]
    /\ UNCHANGED <<variant, releases, files, nops>>

NextInstallers == InstallerRepositoryInit \/ InstallerAddPackage

SpecInstallers == InitInstallers /\ [][NextInstallers]_vars

(***************************************************************************)
(* The properties                                                          *)
(***************************************************************************)

PromoteDone == last.op = "promote_packages"

\* C1: after a promote_packages call that is not a dry run has returned, the
\* same call with the same arguments, the source release unchanged, returns
\* the empty list.
C1_Idempotent ==
    (PromoteDone /\ ~last.args.dryrun)
        => PromoteOf(World, last.args).result = <<>>

\* a promotion that copied packages has returned
C1_Witness ==
    PromoteDone /\ ~last.args.dryrun /\ last.result # <<>>

\* what identifies a package, wherever its file lies
PackageId(p) == <<p.name, p.version.strversion, p.version.release, p.arch,
                  p.os>>

\* the set of packages of a list
PackageSet(l) == {PackageId(l[i]) : i \in 1..Len(l)}

\* the arguments args with dryrun set to d
WithDryrun(args, d) == [args EXCEPT !.dryrun = d]

\* C2: from the same starting state, promote_packages with dryrun=True
\* returns the same set of packages as the call with the same arguments
\* that is not a dry run: every step that is a promotion returns the set the
\* dry run returns on the state the step starts in.
C2_DryRunEquivalence ==
    [][(last'.op = "promote_packages" /\ ~last'.args.dryrun)
          => PackageSet(last'.result)
               = PackageSet(PromoteOf(World, WithDryrun(last'.args, TRUE)).result)]_vars

\* C3: promote_packages with dryrun=True leaves the package index and the
\* dirty flag of every repository as they were, copies no file and
\* regenerates no index.
C3_DryRunFrame ==
    [][(last'.op = "promote_packages" /\ last'.args.dryrun)
          => /\ releases' = releases
             /\ files' = files
             /\ last'.log = <<>>]_vars

\* a dry run that found packages to promote has returned
C3_Witness ==
    PromoteDone /\ last.args.dryrun /\ last.result # <<>>

\* the repositories of a release: keys <<os, arch>>
Cells == {<<OSes[o], Arches(variant)[a]>> :
             o \in 1..Len(OSes), a \in 1..Len(Arches(variant))}

\* the places in the log l where a package was inserted into the
\* repository k of release r, and where its index was regenerated
Insertions(l, r, k) ==
    {i \in 1..Len(l) : l[i][1] = "append" /\ l[i][2] = r /\ l[i][3] = k}
Regenerations(l, r, k) ==
    {i \in 1..Len(l) : l[i][1] = "regen" /\ l[i][2] = r /\ l[i][3] = k}

\* in the log l of a call on release r: a repository that received a
\* package is regenerated exactly once, and no regeneration comes before
\* an insertion
RegeneratedOnceAtEnd(l, r) ==
    /\ \A k \in Cells :
          Insertions(l, r, k) # {} => Cardinality(Regenerations(l, r, k)) = 1
    /\ \A i, j \in 1..Len(l) :
          (l[i][1] = "regen" /\ l[j][1] = "append") => j < i

\* C4 as stated: in one promote_packages call that is not a dry run, every
\* destination repository that received a package is regenerated exactly
\* once, after the last insertion of the call, and a destination repository
\* that received no package is not regenerated.
C4_BatchedRegeneration ==
    (PromoteDone /\ ~last.args.dryrun)
        => /\ RegeneratedOnceAtEnd(last.log, last.args.to_release)
           /\ \A k \in Cells :
                 Insertions(last.log, last.args.to_release, k) = {}
                    => Regenerations(last.log, last.args.to_release, k) = {}

\* C4, amended: in one promote_packages call that is not a dry run, every
\* destination repository that received a package is regenerated exactly
\* once, after the last insertion of the call, and a destination repository
\* that received no package and was not dirty when the call began is not
\* regenerated.
C4_BatchedRegenerationAmended ==
    [][(last'.op = "promote_packages" /\ ~last'.args.dryrun)
          => /\ RegeneratedOnceAtEnd(last'.log, last'.args.to_release)
             /\ \A k \in Cells :
                   (/\ Insertions(last'.log, last'.args.to_release, k) = {}
                    /\ ~releases[last'.args.to_release][k[1]][k[2]].dirty)
                      => Regenerations(last'.log, last'.args.to_release, k)
                           = {}]_vars

\* a promotion has inserted two packages into one repository and
\* regenerated it once, and has left alone a repository that received none
C4_Witness ==
    /\ PromoteDone /\ ~last.args.dryrun
    /\ \E k \in Cells :
          /\ Cardinality(Insertions(last.log, "unstable", k)) >= 2
          /\ Cardinality(Regenerations(last.log, "unstable", k)) = 1
    /\ \E k \in Cells :
          /\ Insertions(last.log, "unstable", k) = {}
          /\ Regenerations(last.log, "unstable", k) = {}

\* the name of package p is one of those a pattern of the list exclude
\* stands for
Matched(exclude, p) ==
    \E i \in 1..Len(Val(exclude)) : p.name \in Val(exclude)[i]

\* the packages of the list l that no pattern of exclude matches
NotExcluded(l, exclude) ==
    LET keep(p) == ~Matched(exclude, p) IN SelectSeq(l, keep)

\* the arguments args without exclude_package_names
WithoutExclude(args) == [args EXCEPT !.exclude_package_names = None]

\* C5: the result of promote_packages and the packages it inserts contain
\* no package whose name a pattern of exclude_package_names matches, and the
\* result contains every package the same call without the patterns returns
\* whose name none of them matches.
C5_Exclusion ==
    [][(last'.op = "promote_packages"
          /\ ~IsNone(last'.args.exclude_package_names))
          => /\ \A i \in 1..Len(last'.result) :
                   ~Matched(last'.args.exclude_package_names,
                            last'.result[i])
             /\ \A i \in 1..Len(last'.log) :
                   last'.log[i][1] = "append"
                      => ~Matched(last'.args.exclude_package_names,
                                  last'.log[i][4])
             /\ last'.result
                   = NotExcluded(
                        PromoteOf(World, WithoutExclude(last'.args)).result,
                        last'.args.exclude_package_names)]_vars

\* a promotion with a pattern has promoted packages and has left out a
\* package of the cache that the pattern matches and that is still newer
\* than what the destination holds
C5_Witness ==
    /\ PromoteDone /\ ~last.args.dryrun
    /\ ~IsNone(last.args.exclude_package_names)
    /\ last.result # <<>>
    /\ LET held == ReleaseGetPackages(variant, releases["cache"], None, None,
                                      None, None, None, TRUE)
       IN  \E i \in 1..Len(held) :
              /\ Matched(last.args.exclude_package_names, held[i])
              /\ ReleaseIsNewer(variant, releases["unstable"], held[i])

\* C6: when promote_packages is called with os=X, every package of the
\* result and every package inserted into the destination belongs to the
\* operating system X, and the destination's repositories of the other
\* operating systems are left as they were.
C6_OSFilter ==
    [][(last'.op = "promote_packages" /\ ~IsNone(last'.args.os))
          => /\ \A i \in 1..Len(last'.result) :
                   last'.result[i].os = Val(last'.args.os)
             /\ \A i \in 1..Len(last'.log) :
                   last'.log[i][1] = "append"
                      => last'.log[i][3][1] = Val(last'.args.os)
             /\ \A o \in SeqToSet(OSes) \ {Val(last'.args.os)} :
                   releases'[last'.args.to_release][o]
                      = releases[last'.args.to_release][o]]_vars

\* the source frontier of the call with arguments args on the present state
Frontier(args) ==
    ReleaseGetPackages(variant,
        releases[IF IsNone(args.from_release) THEN "cache"
                 ELSE get_release(Val(args.from_release))],
        package_name(args.name), args.os, args.version, None, None, TRUE)

\* the packages of the source release that share the source build of src
SourceBuild(args, src) ==
    ReleaseGetPackages(variant,
        releases[IF IsNone(args.from_release) THEN "cache"
                 ELSE get_release(Val(args.from_release))],
        None, None, None, None, Some(src), FALSE)

\* C7: if the source frontier holds two packages of the same name at equal
\* version, promote_packages processes both: the packages that share the
\* source build of either one are considered for promotion, so a dry run
\* returns each of them that is not excluded and is newer than what the
\* destination holds.
C7_FrontierTies ==
    (PromoteDone /\ last.args.dryrun)
        => LET frontier == Frontier(last.args)
           IN  \A i, j \in 1..Len(frontier) :
                  (/\ i # j
                   /\ frontier[i].name = frontier[j].name
                   /\ frontier[i].version.version = frontier[j].version.version)
                     => LET pkgs == SourceBuild(last.args, frontier[j])
                        IN  \A m \in 1..Len(pkgs) :
                               (/\ ~Skip(last.args.exclude_package_names,
                                         pkgs[m])
                                /\ ReleaseIsNewer(variant,
                                       releases[last.args.to_release], pkgs[m]))
                                  => pkgs[m] \in SeqToSet(last.result)

\* the list l of Metadata is in ascending order of Version, and its last
\* element carries the greatest version
SortedByVersion(l) ==
    /\ \A i, j \in 1..Len(l) :
          i < j => ~VersionGt(l[i].version, l[j].version)
    /\ \A i \in 1..Len(l) : VersionGe(l[Len(l)].version, l[i].version)

\* C8: in every reachable state the list of every name in every repository
\* is sorted ascending by Version, and its last element carries the
\* greatest version of that name.
C8_Sorted ==
    \A r \in ReleaseNames, k \in Cells, n \in NameSet :
        SortedByVersion(releases[r][k[1]][k[2]].packages[n])

\* add_package has put a package in front of a greater version that the
\* repository already held
C8_Witness ==
    /\ last.op = "add_package" /\ ~last.raised
    /\ \E k \in Cells :
          LET l == releases[last.release][k[1]][k[2]].packages[last.package.name]
          IN  /\ Len(l) >= 2
              /\ VersionEq(l[1].version, last.package.version)
              /\ VersionLt(l[1].version, l[Len(l)].version)

\* how often x occurs in the list l
Count(l, x) == Cardinality({i \in 1..Len(l) : l[i] = x})

\* every entry of the list old is an entry of the list new, as often
Kept(old, new) ==
    \A i \in 1..Len(old) : Count(old, old[i]) <= Count(new, old[i])

\* C9: the index of a Repository is append-only: no step removes or
\* replaces an entry of a repository's lists, and each add_package makes
\* the list of exactly one name in the repository it is called on longer by
\* one.
C9_AppendOnly ==
    [][/\ \A r \in ReleaseNames, k \in Cells, n \in NameSet :
             Kept(releases[r][k[1]][k[2]].packages[n],
                  releases'[r][k[1]][k[2]].packages[n])
       /\ last'.op = "add_package"
             => LET keys == repositories_for_package(variant,
                               releases[last'.release], last'.package)
                IN  \A i \in 1..Len(keys), n \in NameSet :
                       Len(releases'[last'.release][keys[i][1]][keys[i][2]]
                              .packages[n])
                         = Len(releases[last'.release][keys[i][1]][keys[i][2]]
                                  .packages[n])
                           + (IF n = last'.package.name THEN 1 ELSE 0)]_vars

\* the repository repo holds a package of the name and architecture of p
\* whose version is greater than or equal to that of p
HoldsAtLeast(repo, p) ==
    \E i \in 1..Len(repo.packages[p.name]) :
        /\ repo.packages[p.name][i].arch = p.arch
        /\ VersionGe(repo.packages[p.name][i].version, p.version)

\* C10: Repository.is_newer(p) is true if and only if the repository holds
\* no package of the name and architecture of p whose version is greater
\* than or equal to that of p: in every reachable state, for every
\* repository of every release and every package p of the operating system
\* of the repository.
C10_IsNewer ==
    \A r \in ReleaseNames, k \in Cells :
        \A p \in {q \in Packages(variant) : q.os = k[1]} :
            is_newer(releases[r][k[1]][k[2]], p)
                <=> ~HoldsAtLeast(releases[r][k[1]][k[2]], p)

\* a repository holds an older version of a package than the one asked
\* about, which is newer, and holds the very version of another one asked
\* about, which is not
C10_Witness ==
    \E r \in ReleaseNames, k \in Cells :
        LET repo == releases[r][k[1]][k[2]]
        IN  /\ \E p \in Packages(variant) :
                  /\ is_newer(repo, p)
                  /\ \E i \in 1..Len(repo.packages[p.name]) :
                        /\ repo.packages[p.name][i].arch = p.arch
                        /\ VersionLt(repo.packages[p.name][i].version,
                                     p.version)
            /\ \E p \in Packages(variant) :
                  /\ ~is_newer(repo, p)
                  /\ \E i \in 1..Len(repo.packages[p.name]) :
                        /\ repo.packages[p.name][i].arch = p.arch
                        /\ VersionEq(repo.packages[p.name][i].version,
                                     p.version)

\* the architectures a query may name
ArchArgs == {None} \cup {Some(a) : a \in SeqToSet(Arches(variant))
                                        \cup {OwnRuleArch(variant)}}

\* the packages of the name n in repo, of the architecture arch if one is
\* given
FilteredSet(repo, n, arch) ==
    LET sameArch(p) == IsNone(arch) \/ p.arch = Val(arch)
    IN  SelectSeq(repo.packages[n], sameArch)

\* the packages of the list l whose version no package of l exceeds
MaximalOf(l) ==
    LET isMax(p) == \A i \in 1..Len(l) : ~VersionGt(l[i].version, p.version)
    IN  SelectSeq(l, isMax)

\* C11: Repository.get_packages(name, arch, newest_only=True) returns
\* exactly the packages of the name/arch-filtered set whose version is the
\* maximum version of that set: every tie at the maximum, nothing below
\* it, and the empty list when the filtered set is empty.  In every
\* reachable state, for every repository, name and architecture argument.
C11_NewestOnly ==
    \A r \in ReleaseNames, k \in Cells, n \in NameSet, a \in ArchArgs :
        LET repo == releases[r][k[1]][k[2]]
        IN  get_packages(repo, Some(n), a, None, None, TRUE)
                = MaximalOf(FilteredSet(repo, n, a))

\* a repository holds, for one name, two packages tied at the maximum
\* version and one of a lower version, and the query returns the two
C11_Witness ==
    \E r \in ReleaseNames, k \in Cells, n \in NameSet, a \in ArchArgs :
        LET repo == releases[r][k[1]][k[2]]
            got  == get_packages(repo, Some(n), a, None, None, TRUE)
        IN  /\ Len(FilteredSet(repo, n, a)) = 3
            /\ Len(got) = 2
            /\ VersionEq(got[1].version, got[2].version)

\* the source packages a query by source may name
SourceArgs ==
    {p \in Packages(variant) : p.arch = "src" /\ p.os = OSes[1]}

\* values of the arguments name, arch, version and newest_only that a
\* query by source may carry along
OtherArgs ==
    LET args(n, a, v, b) ==
            [name |-> n, arch |-> a, version |-> v, newest_only |-> b]
        v21 == Some(Version(Str2, Some(Str1)))
    IN  { args(Some(Names[1]), None, None, FALSE),
          args(None, Some("src"), None, FALSE),
          args(None, None, v21, FALSE),
          args(None, None, None, TRUE),
          args(Some(Names[2]), Some("src"), v21, TRUE) }

\* p was built from the source package s, at the version of s
FromSource(s, p) ==
    /\ p.source_name = s.source_name
    /\ VersionEq(p.version, s.version)

\* the number of entries of repo, over all names, built from s
RECURSIVE CountFromSource(_, _, _)
CountFromSource(repo, s, i) ==
    IF i > Len(Names) THEN 0
    ELSE Cardinality({j \in 1..Len(repo.packages[Names[i]]) :
                         FromSource(s, repo.packages[Names[i]][j])})
         + CountFromSource(repo, s, i + 1)

\* C12: Repository.get_packages(source=s) returns exactly the packages of
\* the repository, of any name and architecture, whose source reference
\* and version equal those of s, whatever the other arguments are.  In
\* every reachable state, for every repository and source package s.
C12_BySource ==
    \A r \in ReleaseNames, k \in Cells, s \in SourceArgs :
        \A repo \in {releases[r][k[1]][k[2]]} :
            \A got \in {get_packages(repo, None, None, None, Some(s),
                                      FALSE)} :
                /\ \A i \in 1..Len(got) : FromSource(s, got[i])
                /\ \A n \in NameSet : \A j \in 1..Len(repo.packages[n]) :
                      FromSource(s, repo.packages[n][j])
                          => repo.packages[n][j] \in SeqToSet(got)
                /\ Len(got) = CountFromSource(repo, s, 1)
                /\ \A o \in OtherArgs :
                      get_packages(repo, o.name, o.arch, o.version,
                                   Some(s), o.newest_only) = got

\* a query by source returns packages of two names while the repository
\* holds a package of the same source at another version, which it leaves
\* out
C12_Witness ==
    \E r \in ReleaseNames, k \in Cells, s \in SourceArgs :
        LET repo == releases[r][k[1]][k[2]]
            got  == get_packages(repo, None, None, None, Some(s), FALSE)
        IN  /\ \E i, j \in 1..Len(got) : got[i].name # got[j].name
            /\ \E n \in NameSet : \E j \in 1..Len(repo.packages[n]) :
                  /\ repo.packages[n][j].source_name = s.source_name
                  /\ ~VersionEq(repo.packages[n][j].version, s.version)

\* C13: Repository.add_package(p, update_metadata=True) regenerates the
\* index of the repository and leaves its dirty flag False, whatever the
\* flag was; with update_metadata=False it regenerates nothing and leaves
\* the flag True.  On every add_package step, for every repository the
\* package is routed to.
C13_AddPackageMetadata ==
    [][last'.op = "add_package"
          => LET r    == last'.release
                 keys == repositories_for_package(variant, releases[r],
                                                  last'.package)
             IN  \A i \in 1..Len(keys) :
                    IF last'.update_metadata
                    THEN /\ Regenerations(last'.log, r, keys[i]) # {}
                         /\ ~releases'[r][keys[i][1]][keys[i][2]].dirty
                    ELSE /\ Regenerations(last'.log, r, keys[i]) = {}
                         /\ releases'[r][keys[i][1]][keys[i][2]].dirty]_vars

\* the repositories an update_metadata call on a release goes through
UpdateScope(rel, osname) ==
    SeqToSet(repositories_for_os_arch(variant, rel, osname, None))

\* C14: Repository.update_metadata(force) regenerates the index if and
\* only if the repository is dirty or force is given, and leaves the
\* repository not dirty; a second call with force=False that follows with
\* no add_package in between regenerates nothing and changes nothing.  On
\* every update_metadata step, for every repository the call goes through.
C14_UpdateMetadata ==
    [][last'.op = "update_metadata"
          => \A k \in UpdateScope(releases[last'.release], last'.osname) :
                /\ Regenerations(last'.log, last'.release, k) # {}
                      <=> (last'.force
                           \/ releases[last'.release][k[1]][k[2]].dirty)
                /\ Cardinality(Regenerations(last'.log, last'.release, k))
                      <= 1
                /\ ~releases'[last'.release][k[1]][k[2]].dirty
                /\ releases'[last'.release][k[1]][k[2]].packages
                      = releases[last'.release][k[1]][k[2]].packages
                /\ RepositoryUpdateMetadata(World', last'.release, k, FALSE)
                      = World']_vars

\* an update_metadata call without force has regenerated a repository that
\* was dirty and has left alone one that was not
C14_Witness ==
    /\ last.op = "update_metadata"
    /\ ~last.force
    /\ \E k \in UpdateScope(releases[last.release], last.osname) :
          Regenerations(last.log, last.release, k) # {}
    /\ \E k \in UpdateScope(releases[last.release], last.osname) :
          Regenerations(last.log, last.release, k) = {}

\* C15: after Release.add_package of a "noarch" package in the yum
\* variant, whose routing fans such a package to every binary architecture
\* of its operating system, Release.get_packages for the name of the
\* package, that operating system and any one of those architectures
\* returns the package.  On every add_package step of such a package.
C15_FanOutQuery ==
    [][(/\ last'.op = "add_package"
        /\ variant = "yum"
        /\ last'.package.arch = "noarch")
          => LET r    == last'.release
                 p    == last'.package
                 keys == repositories_for_package(variant, releases[r], p)
             IN  \A i \in 1..Len(keys) :
                    \E q \in SeqToSet(ReleaseGetPackages(variant,
                                 releases'[r], Some(p.name), Some(p.os),
                                 None, Some(keys[i][2]), None, FALSE)) :
                        PackageId(q) = PackageId(p)]_vars

Concrete(v) == v.release # Wildcard

\* the number of the conditions of the set that hold
HowMany(conditions) == Cardinality({c \in conditions : c[2]})

\* C17: over Version objects with concrete releases the comparison is a
\* strict total order: of a < b, a == b and a > b exactly one holds, and
\* a < b and b < c give a < c.  After every comparison, for the two
\* objects compared and for the three objects in every order.
C17_StrictTotalOrder ==
    last.op = "compare"
        => /\ (Concrete(last.objs[last.i]) /\ Concrete(last.objs[last.j]))
                 => HowMany({<<"lt", last.lt>>, <<"eq", last.eq>>,
                             <<"gt", last.gt>>}) = 1
           /\ \A i, j, k \in Positions :
                 LET a == last.objs[i]
                     b == last.objs[j]
                     c == last.objs[k]
                 IN  (/\ Concrete(a) /\ Concrete(b) /\ Concrete(c)
                      /\ VersionLt(a, b) /\ VersionLt(b, c))
                        => VersionLt(a, c)

\* C18: for Version objects v1, v2 with concrete releases, v1 < v2 holds
\* exactly when v2 > v1, v1 == v2 exactly when v2 == v1, v1 < v2 and
\* v1 > v2 never both hold, and cmp(v1, v2) is the negation of
\* cmp(v2, v1) wherever the values decide cmp.  After every comparison,
\* for the two objects compared.
C18_Antisymmetry ==
    LET v1 == last.objs[last.i]
        v2 == last.objs[last.j]
    IN  (last.op = "compare" /\ Concrete(v1) /\ Concrete(v2))
           => /\ last.lt <=> VersionGt(v2, v1)
              /\ last.gt <=> VersionLt(v2, v1)
              /\ last.eq <=> VersionEq(v2, v1)
              /\ ~(last.lt /\ last.gt)
              /\ IF last.cmp = 2 THEN VersionCmp(v2, v1) = 2
                 ELSE VersionCmp(v2, v1) = -last.cmp

\* comparisons of objects with concrete releases have given each of the
\* outcomes: one by the version numbers, one by the releases
C18_Witness ==
    /\ last.op = "compare"
    /\ Concrete(last.objs[last.i]) /\ Concrete(last.objs[last.j])
    /\ last.lt /\ last.cmp = -1
    /\ last.objs[last.i].version = last.objs[last.j].version
    /\ last.objs[last.i].release # last.objs[last.j].release
    /\ VersionGt(last.objs[last.j], last.objs[last.i])
    /\ \E k \in Positions :
          /\ Concrete(last.objs[k])
          /\ last.objs[k].version # last.objs[last.i].version
          /\ VersionGt(last.objs[k], last.objs[last.i])

\* the links of the chain final > rc1 > beta1 > alpha1, as pairs of
\* release fields: a Version constructed without release holds "*"
ChainLinks ==
    { <<Wildcard, StrRc1>>, <<StrRc1, StrBeta1>>, <<StrBeta1, StrAlpha1>> }

\* C19: for one version string v, Version(v) > Version(v, "rc1")
\* > Version(v, "beta1") > Version(v, "alpha1"), each strictly: the
\* comparison of two neighbours of the chain returns True for > and False
\* for < and for ==.  After every comparison of two such objects.
C19_PreReleaseChain ==
    (/\ last.op = "compare"
     /\ last.objs[last.i].strversion = last.objs[last.j].strversion
     /\ <<last.objs[last.i].release, last.objs[last.j].release>>
           \in ChainLinks)
        => last.gt /\ ~last.lt /\ ~last.eq

\* the components of a dotted version string as integers, a missing
\* component counting as 0
Components(v) ==
    LET parts == SplitDot(v)
    IN  [n \in 1..4 |-> IF n <= Len(parts) THEN DigitsValue(parts[n]) ELSE 0]

\* the left-to-right comparison of two component lists
ComponentsGreater(x, y) ==
    \E n \in 1..4 : x[n] > y[n] /\ \A m \in 1..(n - 1) : x[m] = y[m]

\* C20: for version strings of up to four dotted non-negative integers the
\* order of Version is the left-to-right comparison of the components as
\* integers, a missing component counting as 0, whatever the values of
\* the components.  After every comparison of two objects of one release.
C20_NumericComponents ==
    (/\ last.op = "compare"
     /\ last.objs[last.i].release = last.objs[last.j].release)
        => LET x == Components(last.objs[last.i].strversion)
               y == Components(last.objs[last.j].strversion)
           IN  /\ last.gt <=> ComponentsGreater(x, y)
               /\ last.lt <=> ComponentsGreater(y, x)
               /\ last.eq <=> x = y

\* the rank of a tag: alpha 1, beta 2, rc 3, final 4
TagRank(tag) ==
    IF tag \in {StrA, StrAlpha} THEN 1
    ELSE IF tag \in {StrB, StrBeta, StrDotBeta, StrUpperBeta} THEN 2
    ELSE IF tag = StrRc THEN 3
    ELSE 4

\* C21: for equal numeric components the float of a version string orders
\* alpha < beta < rc < final, and for equal components and equal tag the
\* larger sub-revision orders higher, for every sub-revision and every
\* spelling of the tag.  After every conversion of two strings of the
\* base "1.2".
C21_TagOrder ==
    (/\ last.op = "version2float"
     /\ last.texts[1].base = Dotted(<<1, 2>>)
     /\ last.texts[2].base = Dotted(<<1, 2>>))
        => LET t1 == last.texts[1]
               t2 == last.texts[2]
               less == /\ ~Raised(last.keys[1])
                       /\ ~Raised(last.keys[2])
                       /\ FloatGreater(last.keys[2], last.keys[1])
           IN  /\ TagRank(t1.tag) < TagRank(t2.tag) => less
               /\ (/\ TagRank(t1.tag) = TagRank(t2.tag)
                    /\ ~IsNone(t1.sub) /\ ~IsNone(t2.sub)
                    /\ Val(t1.sub) < Val(t2.sub)) => less

\* C24: constructing a Version from any version string never raises, and
\* a string with a component that is not a number gives the version value
\* 0.  After every construction.
C24_LenientParsing ==
    last.op = "Version"
        => /\ ~last.raised
           /\ last.texts[1].base # Dotted(<<1, 2>>)
                 => last.obj.version = Float(0, 0)

\* C22: a Version built with no release is == to every Version of the
\* same version string and a concrete release, in both argument orders,
\* and is not == to any Version of another version value.  After every
\* comparison whose first object was built with no release.
C22_WildcardEquality ==
    LET a == last.objs[last.i]
        b == last.objs[last.j]
    IN  (last.op = "compare" /\ ~Concrete(a))
           => /\ a.strversion = b.strversion
                    => last.eq /\ VersionEq(b, a)
              /\ a.version # b.version
                    => ~last.eq /\ ~VersionEq(b, a)

\* a Version without release was compared with one of the same version
\* string and a concrete release, and the third object is one of another
\* version value
C22_Witness ==
    /\ last.op = "compare"
    /\ ~Concrete(last.objs[last.i])
    /\ Concrete(last.objs[last.j])
    /\ last.objs[last.i].strversion = last.objs[last.j].strversion
    /\ last.eq
    /\ \E k \in Positions :
          /\ last.objs[k].version # last.objs[last.i].version
          /\ ~VersionEq(last.objs[last.i], last.objs[k])

\* C30: for every pair of Versions a, b, with or without release, a != b
\* holds exactly when a == b does not.  After every comparison.
C30_NeIsNotEq ==
    last.op = "compare" => (last.ne <=> ~last.eq)

\* the packages a repository holds
Stored(repo) ==
    UNION { SeqToSet(repo.packages[n]) : n \in DOMAIN repo.packages }

\* C23: no package held in the index of a Repository, loaded at its
\* construction or inserted by add_package, has the wildcard release.
\* In every state after the construction of the installer Repository.
C23_NoStoredWildcard ==
    last.op \in {"Repository.__init__", "add_package"}
        => \A p \in Stored(last.cache) \cup Stored(last.dest) :
              Concrete(p.version)

(***************************************************************************)
(* Exclusion patterns that are not regular expressions.                    *)
(***************************************************************************)
HasMalformed(exclude_package_names) ==
    /\ ~IsNone(exclude_package_names)
    /\ \E i \in 1..Len(Val(exclude_package_names)) :
           Val(exclude_package_names)[i] = Malformed

\* C25: a call of promote_packages whose list of exclusion patterns holds a
\* malformed pattern raises, and leaves every Repository index, every
\* dirty flag and every file as it was
C25_MalformedExclusionFails ==
    [][(/\ nops' = nops + 1
        /\ last'.op = "promote_packages"
        /\ HasMalformed(last'.args.exclude_package_names))
       => /\ last'.raised
          /\ releases' = releases
          /\ files' = files]_vars

(***************************************************************************)
(* What a promotion leaves behind in the source release.                   *)
(***************************************************************************)
\* the source release of the call with arguments args
FromRelease(args) ==
    IF IsNone(args.from_release) THEN "cache"
    ELSE get_release(Val(args.from_release))

\* promote_packages was called without filter, without exclusion, and not
\* as a dry run
Unfiltered(args) ==
    /\ ~args.dryrun
    /\ IsNone(args.os) /\ IsNone(args.name) /\ IsNone(args.version)
    /\ IsNone(args.exclude_package_names)

\* the packages of the list l that no package of l exceeds in version
NewestOf(l) ==
    {l[i] : i \in {k \in DOMAIN l :
                      \A m \in DOMAIN l :
                          ~VersionGt(l[m].version, l[k].version)}}

\* the packages of release r that carry the newest version of their name in
\* their own repository
NewestInPartition(r) ==
    UNION {NewestOf(releases[r][c[1]][c[2]].packages[n]) :
              c \in Cells, n \in NameSet}

\* C26: after promote_packages without filter and exclusion, not a dry run,
\* has returned, the destination release is newer for no package of the
\* source release that carries the newest version of its name in its own
\* repository.
C26_Completeness ==
    (PromoteDone /\ Unfiltered(last.args))
        => \A package \in NewestInPartition(FromRelease(last.args)) :
               ~ReleaseIsNewer(variant, releases[last.args.to_release],
                               package)

(***************************************************************************)
(* Duplicates in the index of a Repository.                                *)
(***************************************************************************)
\* the list l holds two entries of one name, architecture, version and
\* release
HasDuplicate(l) ==
    \E i, j \in DOMAIN l :
        /\ i < j
        /\ l[i].name = l[j].name
        /\ l[i].arch = l[j].arch
        /\ l[i].version.strversion = l[j].version.strversion
        /\ l[i].version.release = l[j].version.release

\* C27: no Repository of the destination release holds two entries of one
\* name, architecture, version and release, in any state that promotions
\* lead to from a destination that held none.
C27_NoDuplicates ==
    \A c \in Cells, n \in NameSet :
        ~HasDuplicate(releases["unstable"][c[1]][c[2]].packages[n])

(***************************************************************************)
(* The destination release when a promotion returns.                       *)
(***************************************************************************)
\* C28: when promote_packages, not a dry run, has returned, every package
\* of its result is contained in every Repository of the destination
\* release that repositories_for_package routes it to, and no Repository of
\* the destination release is dirty.
C28_PostCondition ==
    (PromoteDone /\ ~last.args.dryrun /\ ~last.raised)
        => \E to \in {releases[last.args.to_release]} :
              /\ \A i \in DOMAIN last.result :
                    \A k \in SeqToSet(repositories_for_package(
                                          variant, to, last.result[i])) :
                        Contains(to[k[1]][k[2]], last.result[i])
              /\ \A c \in Cells : ~to[c[1]][c[2]].dirty

\* a promotion that is not a dry run has returned packages, one of them
\* routed to several repositories, into a destination in which a
\* Repository was dirty when the call began
C28_Witness ==
    /\ PromoteDone /\ ~last.args.dryrun /\ ~last.raised
    /\ \E i \in DOMAIN last.result :
          Len(repositories_for_package(variant,
                  releases[last.args.to_release], last.result[i])) > 1
    /\ \E i \in DOMAIN last.log :
          /\ last.log[i][1] = "regen"
          /\ \A j \in DOMAIN last.log :
                last.log[j][1] = "append" => last.log[j][3] # last.log[i][3]

(***************************************************************************)
(* The copy of the artifact under concurrent insertion.                    *)
(***************************************************************************)
\* C29: shutil.copy never writes a destination path that exists, and no
\* destination path is written more than once.
C29_CopyAtMostOnce ==
    /\ [](\A d \in SharedPaths : last.copies[d] <= 1)
    /\ [][\A d \in SharedPaths :
             d \in files => last'.copies[d] = last.copies[d]]_vars

====
